---- MODULE Spec2Model ----
(***************************************************************************)
(* A model of scripts/download_resources.py: the helpers (slugify,         *)
(* get_confirm_token, infer_extension, extract_filename), the two download *)
(* routines and the pipeline of main().                                    *)
(*                                                                         *)
(* Text is modelled as a sequence of tokens (each token stands for the     *)
(* run of characters written in it), so that prefix tests, substring       *)
(* tests and the regular expressions are computed and not assumed.         *)
(***************************************************************************)
EXTENDS Integers, Sequences, FiniteSets, TLC

VARIABLES
    arg,        \* the arguments of the routine under test (SpecFetch, SpecName)
    ret,        \* what that routine returned / did
    urls,       \* args.urls
    web,        \* the pages navigated to so far: page -> what the patterns find
    served,     \* what the server and the disk did for each download call
    fs,         \* the files under resources/: <<outdir, filename>> -> content
    pc,         \* where main() is
    browser,    \* the Chrome driver: "none", "open", "closed"
    navTotal,   \* driver.get calls of this run
    jar,        \* `cookies` (line 131), NoJar before
    sess,       \* `sess` (lines 135-137), NoJar before
    ui,         \* index in args.urls of the URL being crawled
    cur,        \* the crawl of that URL: files, docs, folders left, visits
    id_map,     \* the dict of line 104, as the sequence of its items
    di,         \* index in id_map of the URL being downloaded (0: none yet)
    dl,         \* what is left of that URL's download loops
    calls,      \* download calls made: <<url, kind, id>> -> how many
    failed,     \* the calls that raised (the "Failed" lines printed)
    run,        \* 1 for the first invocation of the script, 2 for the second
    fs1         \* the files as the first invocation left them

fvars == <<arg, ret>>
pvars == <<urls, web, served, fs, pc, browser, navTotal, jar, sess, ui, cur,
           id_map, di, dl, calls, failed, run, fs1>>
vars == <<fvars, pvars>>

\* ------------------------------------------------------------------ bounds

\* cookies carried by one response
MaxCookies == 2
\* tokens of the value of a Content-Disposition filename parameter
MaxName == 3
\* Target URLs on the command line
MaxUrls == 2
\* link occurrences in the markup of all the pages together
MaxLinks == 2

\* ----------------------------------------------------------- text helpers

NoneVal == "None"

\* "no match" of a regular expression, and "no name"
NoMatch == <<NoneVal>>

Range(s) == {s[i] : i \in DOMAIN s}

SeqsUpTo(S, n) == UNION {[1..k -> S] : k \in 0..n}

\* ------------------------------------------------- get_confirm_token (15-19)

\* k.startswith('download_warning'): a cookie name is a token sequence
IsWarningName(name) == Len(name) >= 1 /\ name[1] = "download_warning"

\* The value of the first cookie, in iteration order, whose name starts with
\* download_warning; None when there is none.
RECURSIVE get_confirm_token(_)
get_confirm_token(cookies) ==
    IF cookies = <<>> THEN NoneVal
    ELSE IF IsWarningName(cookies[1].name) THEN cookies[1].value
    ELSE get_confirm_token(Tail(cookies))

\* a variant: `if token is not None:` in place of `if token:`
Truthy_NotNone(token) == token # NoneVal

\* Python truthiness of `token` in `if token:` (lines 52, 71): None and the
\* empty string are both false.
Truthy(token) == token # NoneVal /\ token # ""

\* --------------------------------------------------- infer_extension (21-30)

infer_extension(content_type) ==
    IF Len(content_type) >= 1 /\ content_type[1] = "application/pdf" THEN <<".pdf">>
    ELSE IF "wordprocessingml.document" \in Range(content_type)
            \/ "msword" \in Range(content_type) THEN <<".docx">>
    ELSE IF "presentationml.presentation" \in Range(content_type) THEN <<".pptx">>
    ELSE IF "spreadsheet" \in Range(content_type) THEN <<".xlsx">>
    ELSE <<>>

\* -------------------------------------------------- extract_filename (32-43)

\* the character class [^\";] : every token but the quote and the semicolon
InClass(tok) == tok # "\"" /\ tok # ";"

\* the longest run of class tokens of cd starting at position i
RECURSIVE ClassRun(_, _)
ClassRun(cd, i) ==
    IF i > Len(cd) \/ ~InClass(cd[i]) THEN <<>>
    ELSE <<cd[i]>> \o ClassRun(cd, i + 1)

At(cd, i) == IF i \in DOMAIN cd THEN cd[i] ELSE NoneVal

\* filename\*?=(?:UTF-8'')?"?([^";]+)"?  tried at position i: group 1, or
\* None. The optional parts are greedy and given back in the order the
\* backtracking matcher gives them back.
MatchAt(cd, i) ==
    IF At(cd, i) # "filename" THEN NoMatch
    ELSE LET j == IF At(cd, i + 1) = "*" THEN i + 2 ELSE i + 1
             k == j + 1
             utf == At(cd, k) = "UTF-8''"
             \* where group 1 may start: after UTF-8'' and a quote, after
             \* UTF-8'' alone, after a quote alone, or right after the "="
             starts == (IF utf /\ At(cd, k + 1) = "\"" THEN {k + 2} ELSE {})
                       \cup (IF utf THEN {k + 1} ELSE {})
                       \cup (IF At(cd, k) = "\"" THEN {k + 1} ELSE {})
                       \cup {k}
             good == {r \in {<<t, ClassRun(cd, t)>> : t \in starts} :
                          r[2] # <<>>}
         \* the matcher tries the longest prefix first, that is the
         \* rightmost start
         IN IF At(cd, j) # "=" \/ good = {} THEN NoMatch
            ELSE (CHOOSE r \in good : \A u \in good : r[1] >= u[1])[2]

\* re.search: the match at the leftmost position that has one
RECURSIVE SearchFrom(_, _)
SearchFrom(cd, i) ==
    IF i > Len(cd) THEN NoMatch
    ELSE IF MatchAt(cd, i) # NoMatch THEN MatchAt(cd, i)
    ELSE SearchFrom(cd, i + 1)

RegexSearch(cd) == SearchFrom(cd, 1)

extract_filename(resp, fallback_base) ==
    LET m == RegexSearch(resp.cd)
    IN IF m # NoMatch THEN m
       ELSE <<fallback_base>> \o infer_extension(resp.ct)

\* ----------------------------------------------- the download routines

\* A response of session.get: err (the call raised: a network error), the
\* cookies it set, ok (raise_for_status passes), the headers cd and ct (the
\* empty sequence when absent, as headers.get(..., '') gives), the body.
\* disk is what the filesystem does with the save: "ok", "nodir" (makedirs
\* or open raises, nothing is written) or "trunc" (the write raises after
\* open(path, 'wb') truncated the file).

Partial == <<"partial">>

\* lines 58-63 and 78-83: os.path.join, makedirs, open(path, 'wb'), write
Save(fsys, outdir, filename, body, disk) ==
    LET path == <<outdir, filename>>
        put(c) == [p \in DOMAIN fsys \cup {path} |-> IF p = path THEN c ELSE fsys[p]]
    IN CASE disk = "ok"    -> [raised |-> FALSE, fs |-> put(body)]
         [] disk = "trunc" -> [raised |-> TRUE,  fs |-> put(Partial)]
         [] OTHER          -> [raised |-> TRUE,  fs |-> fsys]

\* Lines 50-54 and 69-73, shared: the GET, the confirm token, the second
\* GET. first is the request's parameters; r1 and r2 what the server
\* answers to the first and to the confirmed request.
Fetch(first, r1, r2) ==
    IF r1.err THEN [reqs |-> <<first>>, raised |-> TRUE, r |-> r1]
    ELSE LET token == get_confirm_token(r1.cookies)
         IN IF Truthy(token)
            THEN LET second == [first EXCEPT !.confirm = token]
                 IN [reqs |-> <<first, second>>,
                     raised |-> r2.err \/ ~r2.ok, r |-> r2]
            ELSE [reqs |-> <<first>>, raised |-> ~r1.ok, r |-> r1]

\* the one element of a singleton: Only({e(x) : x \in {v}}) is e with x
\* bound to the value of v, computed once
Only(S) == CHOOSE x \in S : TRUE

download_drive_file(fsys, fid, outdir, r1, r2, disk) ==
    Only({IF f.raised
          THEN [reqs |-> f.reqs, raised |-> TRUE, fs |-> fsys, name |-> NoMatch]
          ELSE Only({[reqs |-> f.reqs, raised |-> s.raised, fs |-> s.fs,
                      name |-> filename] :
                       filename \in {extract_filename(f.r, fid)},
                       s \in {Save(fsys, outdir, extract_filename(f.r, fid),
                                   f.r.body, disk)}})
          : f \in {Fetch([ep |-> "uc", id |-> fid, format |-> NoneVal,
                          confirm |-> NoneVal], r1, r2)}})

download_doc_export(fsys, did, outdir, fmt, r1, r2, disk) ==
    Only({IF f.raised
          THEN [reqs |-> f.reqs, raised |-> TRUE, fs |-> fsys, name |-> NoMatch]
          ELSE Only({[reqs |-> f.reqs, raised |-> s.raised, fs |-> s.fs,
                      name |-> filename] :
                       filename \in {<<did, "_export",
                                       IF fmt = "pdf" THEN ".pdf" ELSE ".docx">>},
                       s \in {Save(fsys, outdir,
                                   <<did, "_export",
                                     IF fmt = "pdf" THEN ".pdf" ELSE ".docx">>,
                                   f.r.body, disk)}})
          : f \in {Fetch([ep |-> "export", id |-> did, format |-> fmt,
                          confirm |-> NoneVal], r1, r2)}})

EmptyFs == <<>>

\* the pipeline at rest (the routine-level specifications leave it so)
NoJar == {"none"}
BrowserCookies == {"SID"}

NoCrawl == [active |-> FALSE, files |-> {}, docs |-> {}, todo |-> {},
            visits |-> <<>>]
NoDl == [files |-> {}, docs |-> {}, doc |-> NoneVal, fi |-> 1]

Idle ==
    /\ urls = <<>> /\ web = <<>> /\ served = <<>> /\ fs = EmptyFs
    /\ pc = "idle" /\ browser = "none" /\ navTotal = 0 /\ jar = NoJar
    /\ sess = NoJar /\ ui = 0 /\ cur = NoCrawl /\ id_map = <<>> /\ di = 0
    /\ dl = NoDl /\ calls = <<>> /\ failed = {} /\ run = 0 /\ fs1 = EmptyFs

\* ===================================================================
\* SpecFetch: one call of a download routine, its arguments drawn from
\* bounded sets (the responses of the server, the behaviour of the disk).
\* ===================================================================

Ids == {"1", "2"}

CookieNames == {<<"download_warning", "_x">>, <<"NID">>, <<"x_", "download_warning">>}
CookieValues == {"", "t1", "t2"}
Cookies == [name : CookieNames, value : CookieValues]
CookieLists == SeqsUpTo(Cookies, MaxCookies)

Disks == {"ok", "nodir", "trunc"}

Resp(err, cookies, ok, cd, ct, body) ==
    [err |-> err, cookies |-> cookies, ok |-> ok, cd |-> cd, ct |-> ct,
     body |-> body]

FirstResponses ==
    {Resp(e, c, o, <<>>, <<"application/pdf">>, <<"body1">>) :
        e \in BOOLEAN, c \in CookieLists, o \in BOOLEAN}

SecondResponses ==
    {Resp(e, c, o, <<>>, <<"application/pdf">>, <<"body2">>) :
        e \in BOOLEAN, o \in BOOLEAN,
        c \in {<<>>, <<[name |-> <<"download_warning", "_x">>, value |-> "t2"]>>}}

NoRet == [reqs |-> <<>>, raised |-> FALSE, fs |-> EmptyFs, name |-> NoMatch]
NoArg == [kind |-> "none"]

FetchArgs ==
    [kind : {"drive", "pdf", "docx"}, id : {"1"}, r1 : FirstResponses,
     r2 : SecondResponses, disk : Disks]

FetchInit == arg \in FetchArgs /\ ret = NoRet /\ Idle

Outdir0 == <<"a">>

CallDrive ==
    /\ arg.kind = "drive" /\ ret = NoRet
    /\ ret' = download_drive_file(EmptyFs, arg.id, Outdir0, arg.r1, arg.r2, arg.disk)
    /\ UNCHANGED arg

CallDoc ==
    /\ arg.kind \in {"pdf", "docx"} /\ ret = NoRet
    /\ ret' = download_doc_export(EmptyFs, arg.id, Outdir0, arg.kind, arg.r1, arg.r2, arg.disk)
    /\ UNCHANGED arg

FetchNext == CallDrive \/ CallDoc

SpecFetch == FetchInit /\ [][FetchNext /\ UNCHANGED pvars]_vars

Returned == ret # NoRet

\* the positions of the cookies of the first response named download_warning*
WarnAt == {i \in DOMAIN arg.r1.cookies :
             arg.r1.cookies[i].name[1] = "download_warning"}
FirstWarn == CHOOSE i \in WarnAt : \A j \in WarnAt : i <= j
Saved == Returned /\ ~ret.raised

\* C4 as stated: a first response carrying a download_warning cookie makes
\* the routine issue exactly two requests, the second with that cookie's
\* value as confirm; without such a cookie exactly one request is issued;
\* never more than two.
C4_AsStated ==
    (Returned /\ ~arg.r1.err) =>
        /\ Len(ret.reqs) <= 2
        /\ WarnAt # {} =>
              /\ Len(ret.reqs) = 2
              /\ ret.reqs[2].confirm = arg.r1.cookies[FirstWarn].value
        /\ WarnAt = {} => Len(ret.reqs) = 1

\* C4, amended: the second request is issued exactly when the first
\* download_warning cookie (in the response's cookie order) has a non-empty
\* value; it repeats the first request with confirm set to that value, and
\* what is saved is then the second response's body. Otherwise one request
\* is issued. A call issues one or two requests, never more.
C4_Reissue ==
    Returned =>
        /\ Len(ret.reqs) \in {1, 2}
        /\ ret.reqs[1].confirm = NoneVal
        /\ Len(ret.reqs) = 2 <=>
              (~arg.r1.err /\ WarnAt # {} /\ arg.r1.cookies[FirstWarn].value # "")
        /\ Len(ret.reqs) = 2 =>
              /\ ret.reqs[2] = [ret.reqs[1] EXCEPT
                                  !.confirm = arg.r1.cookies[FirstWarn].value]
              /\ \A p \in DOMAIN ret.fs : ret.fs[p] \in {<<"body2">>, Partial}
        /\ (Len(ret.reqs) = 1 /\ ~ret.raised) =>
              \A p \in DOMAIN ret.fs : ret.fs[p] = <<"body1">>
        /\ ~ret.raised => DOMAIN ret.fs # {}

\* a confirmed download: two requests, the second response saved
C4_Witness ==
    /\ Saved /\ Len(ret.reqs) = 2
    /\ \E p \in DOMAIN ret.fs : ret.fs[p] = <<"body2">>
    /\ Len(arg.r1.cookies) = 2

\* ===================================================================
\* SpecName: download_drive_file on a successful response whose headers
\* are drawn from bounded sets: how the saved file is named.
\* ===================================================================

\* The value of a filename parameter: a quoted string may hold a
\* semicolon, a bare token or an extended value may not.
NameToks == {"report", ".pdf"}
QuotedValues == SeqsUpTo(NameToks \cup {";"}, MaxName) \ {<<>>}
BareValues == SeqsUpTo(NameToks, MaxName) \ {<<>>}

\* A Content-Disposition header by its parts: form is "quoted"
\* (filename="v"), "bare" (filename=v) or "ext" (filename*=UTF-8''v); pre
\* puts "attachment;" before the parameter and post "; size=1" after it.
Dispositions ==
    [form : {"quoted"}, value : QuotedValues, pre : BOOLEAN, post : BOOLEAN]
    \cup [form : {"bare", "ext"}, value : BareValues, pre : BOOLEAN, post : BOOLEAN]

NoDisposition == [form |-> "absent", value |-> <<>>, pre |-> FALSE, post |-> FALSE]

\* the header's text
Render(d) ==
    IF d.form = "absent" THEN <<>>
    ELSE (IF d.pre THEN <<"attachment", ";">> ELSE <<>>)
         \o (CASE d.form = "quoted" -> <<"filename", "=", "\"">> \o d.value \o <<"\"">>
               [] d.form = "bare"   -> <<"filename", "=">> \o d.value
               [] d.form = "ext"    -> <<"filename", "*", "=", "UTF-8''">> \o d.value)
         \o (IF d.post THEN <<";", "size=1">> ELSE <<>>)

\* Content-Type values, each with the family it belongs to
ContentTypes ==
    { [family |-> "pdf",   text |-> <<"application/pdf">>],
      [family |-> "pdf",   text |-> <<"application/pdf", "; charset=binary">>],
      [family |-> "word",  text |-> <<"application/vnd.openxmlformats-officedocument.",
                                      "wordprocessingml.document">>],
      [family |-> "word",  text |-> <<"application/", "msword">>],
      [family |-> "ppt",   text |-> <<"application/vnd.openxmlformats-officedocument.",
                                      "presentationml.presentation">>],
      [family |-> "excel", text |-> <<"application/vnd.openxmlformats-officedocument.",
                                      "spreadsheet", "ml.sheet">>],
      [family |-> "other", text |-> <<"text/html">>],
      [family |-> "other", text |-> <<"application/octet-stream">>],
      [family |-> "other", text |-> <<>>] }

NameArgs ==
    [kind : {"name"}, id : Ids, cd : Dispositions \cup {NoDisposition},
     ct : ContentTypes]

NameInit == arg \in NameArgs /\ ret = NoRet /\ Idle

\* a successful download: no interstitial, status 200, the disk accepts
CallNamed ==
    /\ arg.kind = "name" /\ ret = NoRet
    /\ LET r == Resp(FALSE, <<>>, TRUE, Render(arg.cd), arg.ct.text, <<"body1">>)
       IN ret' = download_drive_file(EmptyFs, arg.id, Outdir0, r, r, "ok")
    /\ UNCHANGED arg

NameNext == CallNamed

SpecName == NameInit /\ [][NameNext /\ UNCHANGED pvars]_vars

FamilyExt(family) ==
    CASE family = "pdf"   -> <<".pdf">>
      [] family = "word"  -> <<".docx">>
      [] family = "ppt"   -> <<".pptx">>
      [] family = "excel" -> <<".xlsx">>
      [] OTHER            -> <<>>

\* C7 as stated: a successful download_drive_file writes the file under
\* exactly the name the Content-Disposition filename parameter carries and,
\* when the header carries none, under the file ID followed by the
\* extension of the Content-Type's family.
C7_AsStated ==
    (arg.kind = "name" /\ Saved) =>
        /\ DOMAIN ret.fs = {<<Outdir0, ret.name>>}
        /\ arg.cd.form # "absent" => ret.name = arg.cd.value
        /\ arg.cd.form = "absent" => ret.name = <<arg.id>> \o FamilyExt(arg.ct.family)

\* ===================================================================
\* The pipeline of main()
\* ===================================================================

\* ------------------------------------------------------- slugify (11-13)

IsAlnum(c) == c \notin {"/", "-", " ", "!"}

RECURSIVE StripLeft(_)
StripLeft(p) == IF p # <<>> /\ p[1] = "/" THEN StripLeft(Tail(p)) ELSE p

RECURSIVE StripRight(_)
StripRight(p) ==
    IF p # <<>> /\ p[Len(p)] = "/" THEN StripRight(SubSeq(p, 1, Len(p) - 1)) ELSE p

\* re.sub(r'[^A-Za-z0-9]+', '_', p): every run of other characters becomes
\* one underscore
RECURSIVE SubRuns(_, _)
SubRuns(p, inRun) ==
    IF p = <<>> THEN <<>>
    ELSE IF IsAlnum(p[1]) THEN <<p[1]>> \o SubRuns(Tail(p), FALSE)
    ELSE (IF inRun THEN <<>> ELSE <<"_">>) \o SubRuns(Tail(p), TRUE)

\* a URL is modelled by its path, which is all slugify reads of it
slugify(url) ==
    LET s == SubRuns(StripRight(StripLeft(url)), FALSE)
    IN IF s = <<>> THEN <<"root">> ELSE s

\* ------------------------------------------- the inputs of a run

TargetUrls ==
    { <<"/", "a", "/", "b">>, <<"/", "a", "-", "b", "/">>, <<"/">> }

UrlLists == SeqsUpTo(TargetUrls, MaxUrls) \ {<<>>}

\* A link in a page's markup: the text one of the four patterns matches
LinkKinds == {"/file/d/", "open?id=", "/document/d/", "drive/folders/"}
Links == [kind : LinkKinds, id : Ids]

FolderUrl(id) == <<"https://drive.google.com/drive/folders/", id>>

\* lines 115-118 (and 125-127): what each re.findall on a page's markup
\* gives, as a set
Scan(src) ==
    [byFile  |-> {l.id : l \in {x \in Range(src) : x.kind = "/file/d/"}},
     byOpen  |-> {l.id : l \in {x \in Range(src) : x.kind = "open?id="}},
     byDoc   |-> {l.id : l \in {x \in Range(src) : x.kind = "/document/d/"}},
     folders |-> {FolderUrl(l.id) : l \in {x \in Range(src) : x.kind = "drive/folders/"}}]

\* a variant: the open?id= pattern of line 116 left out
Extract_FileOnly(src) ==
    [files   |-> Scan(src).byFile,
     docs    |-> Scan(src).byDoc,
     folders |-> Scan(src).folders]

\* files |= ..., docs, folders: the sets main() builds from them
Extract(src) ==
    [files   |-> Scan(src).byFile \cup Scan(src).byOpen,
     docs    |-> Scan(src).byDoc,
     folders |-> Scan(src).folders]

\* the distinct links of the pages seen so far
Distinct(page) ==
    Cardinality(page.byFile) + Cardinality(page.byOpen)
    + Cardinality(page.byDoc) + Cardinality(page.folders)

RECURSIVE UsedLinks(_)
UsedLinks(D) ==
    IF D = {} THEN 0
    ELSE LET p == CHOOSE x \in D : TRUE IN Distinct(web[p]) + UsedLinks(D \ {p})

\* the markups a page not seen before may have
Markups == SeqsUpTo(Links, MaxLinks - UsedLinks(DOMAIN web))

\* driver.page_source after driver.get(page): a page shows the same links
\* on every visit
PageSources(page) ==
    IF page \in DOMAIN web
    THEN {src \in SeqsUpTo(Links, MaxLinks) : Scan(src) = web[page]}
    ELSE Markups

Put(f, k, v) == [x \in DOMAIN f \cup {k} |-> IF x = k THEN v ELSE f[x]]

Init ==
    /\ arg = NoArg /\ ret = NoRet
    /\ urls \in UrlLists
    /\ web = <<>> /\ served = <<>> /\ fs = EmptyFs
    /\ pc = "launch" /\ browser = "none" /\ navTotal = 0 /\ jar = NoJar
    /\ sess = NoJar /\ ui = 1 /\ cur = NoCrawl /\ id_map = <<>> /\ di = 0
    /\ dl = NoDl /\ calls = <<>> /\ failed = {} /\ run = 1 /\ fs1 = EmptyFs

\* ------------------------------------------------- 1) launch and log in

\* lines 99-101; a failure to launch is not handled
Launch ==
    /\ pc = "launch"
    /\ \E ok \in BOOLEAN :
          IF ok THEN /\ pc' = "crawl" /\ browser' = "open"
                     /\ navTotal' = navTotal + 1
                ELSE /\ pc' = "aborted" /\ UNCHANGED <<browser, navTotal>>
    /\ UNCHANGED <<arg, ret, urls, web, served, fs, jar, sess, ui, cur, id_map,
                   di, dl, calls, failed, run, fs1>>

\* ------------------------------------------------- 2) the crawl

\* web keeps of a page's markup what the patterns find in it
Visit(page, src) == web' = Put(web, page, Scan(src))

\* lines 113-118: the sets a Target URL's crawl starts from
CrawlTarget(url, src) ==
    [active |-> TRUE, files |-> Extract(src).files, docs |-> Extract(src).docs,
     todo |-> Extract(src).folders, visits |-> <<url>>]

\* a variant: a navigation that raises is skipped and the crawl goes on
OnNavError_Continue == "crawl"

\* lines 110 and 122: driver.get is in no try, so a navigation that raises
\* ends main()
OnNavError == "aborted"

\* lines 105-118: the Target URL's own page
NavigateTarget ==
    /\ pc = "crawl" /\ ~cur.active /\ ui <= Len(urls)
    /\ \/ \E src \in PageSources(urls[ui]) :
             /\ Visit(urls[ui], src)
             /\ cur' = CrawlTarget(urls[ui], src)
             /\ navTotal' = navTotal + 1
             /\ pc' = pc
       \/ /\ pc' = OnNavError
          /\ navTotal' = navTotal + 1
          /\ UNCHANGED <<web, cur>>
    /\ UNCHANGED <<arg, ret, urls, served, fs, browser, jar, sess, ui, id_map,
                   di, dl, calls, failed, run, fs1>>

\* a variant: the folders a folder's page links to are crawled as well
CrawlFolder_Recursive(c, fldr, sub) ==
    [c EXCEPT !.files = @ \cup Extract(sub).files,
              !.docs = @ \cup Extract(sub).docs,
              !.todo = (@ \ {fldr})
                       \cup (Extract(sub).folders \ (Range(c.visits) \cup {fldr})),
              !.visits = Append(@, fldr)]

\* lines 122-127: a folder's page adds file and doc IDs; the folder URLs in
\* it are not looked for
CrawlFolder(c, fldr, sub) ==
    [c EXCEPT !.files = @ \cup Extract(sub).files,
              !.docs = @ \cup Extract(sub).docs,
              !.todo = @ \ {fldr},
              !.visits = Append(@, fldr)]

\* lines 120-127: one folder, in whatever order the set yields them
NavigateFolder ==
    /\ pc = "crawl" /\ cur.active
    /\ \E fldr \in cur.todo :
        \/ \E sub \in PageSources(fldr) :
             /\ Visit(fldr, sub)
             /\ cur' = CrawlFolder(cur, fldr, sub)
             /\ navTotal' = navTotal + 1
             /\ pc' = pc
        \/ /\ pc' = OnNavError
           /\ navTotal' = navTotal + 1
           /\ UNCHANGED <<web, cur>>
    /\ UNCHANGED <<arg, ret, urls, served, fs, browser, jar, sess, ui, id_map,
                   di, dl, calls, failed, run, fs1>>

\* id_map[url] = value: a key already there keeps its place
DictSet(d, url, value) ==
    IF \E i \in DOMAIN d : d[i].url = url
    THEN [i \in DOMAIN d |-> IF d[i].url = url THEN value ELSE d[i]]
    ELSE Append(d, value)

\* line 129, and the end of the loop of line 105
Store ==
    /\ pc = "crawl" /\ cur.active /\ cur.todo = {}
    /\ id_map' = DictSet(id_map, urls[ui],
                         [url |-> urls[ui], outdir |-> slugify(urls[ui]),
                          files |-> cur.files, docs |-> cur.docs])
    /\ cur' = [cur EXCEPT !.active = FALSE]
    /\ ui' = ui + 1
    /\ pc' = IF ui = Len(urls) THEN "cookies" ELSE "crawl"
    /\ UNCHANGED <<arg, ret, urls, web, served, fs, browser, navTotal, jar,
                   sess, di, dl, calls, failed, run, fs1>>

\* ------------------------------------------------- 3) the session bridge

\* line 131
GetCookies ==
    /\ pc = "cookies"
    /\ jar' = BrowserCookies
    /\ pc' = "quit"
    /\ UNCHANGED <<arg, ret, urls, web, served, fs, browser, navTotal, sess,
                   ui, cur, id_map, di, dl, calls, failed, run, fs1>>

\* a variant: the browser is left open
Quit_KeepsBrowser ==
    /\ pc = "quit"
    /\ pc' = "session"
    /\ UNCHANGED <<arg, ret, urls, web, served, fs, browser, navTotal, jar,
                   sess, ui, cur, id_map, di, dl, calls, failed, run, fs1>>

\* line 132
Quit ==
    /\ pc = "quit"
    /\ browser' = "closed"
    /\ pc' = "session"
    /\ UNCHANGED <<arg, ret, urls, web, served, fs, navTotal, jar, sess, ui,
                   cur, id_map, di, dl, calls, failed, run, fs1>>

\* lines 135-137
MakeSession ==
    /\ pc = "session"
    /\ sess' = jar
    /\ pc' = "download"
    /\ UNCHANGED <<arg, ret, urls, web, served, fs, browser, navTotal, jar,
                   ui, cur, id_map, di, dl, calls, failed, run, fs1>>

\* ------------------------------------------------- 4) the downloads

\* What the server and the disk do for one download call. "fail": the call
\* raises (a network error, an HTTP error status, or the filesystem
\* refusing the directory or the file); "cd": success, Content-Disposition
\* names the file report.pdf; "plain": success, no Content-Disposition.
FileScripts == {"fail", "cd", "plain"}
DocScripts == {"fail", "plain"}
FailKinds == {"net", "http", "nodir"}

ReportPdf ==
    Render([form |-> "quoted", value |-> <<"report", ".pdf">>, pre |-> TRUE,
            post |-> FALSE])

\* the response and the disk behaviour of a script
Played(script, how, body) ==
    [r |-> Resp(script = "fail" /\ how = "net", <<>>,
                ~(script = "fail" /\ how = "http"),
                IF script = "cd" THEN ReportPdf ELSE <<>>,
                <<"application/pdf">>, body),
     disk |-> IF script = "fail" /\ how = "nodir" THEN "nodir" ELSE "ok"]

\* line 150
Formats == <<"pdf", "docx">>

Count(key) == IF key \in DOMAIN calls THEN calls[key] ELSE 0

\* a variant: no try around the download calls
AfterCall_Propagate(raised) == IF raised THEN "aborted" ELSE "download"

\* lines 144-147 and 151-154: where main() goes on after a download call
\* that raised or returned: the except clause prints and the loop continues
AfterCall(raised) == "download"

\* One download call inside its try: kind is "file" or a format.
Call(url, outdir, kind, id) ==
    LET key == <<url, kind, id>>
    IN \E script \in (IF kind = "file" THEN FileScripts ELSE DocScripts),
          how \in FailKinds :
        /\ key \in DOMAIN served => script = served[key]
        /\ \E p \in {Played(script, how, <<kind, id>>)} :
           \E res \in {IF kind = "file"
                        THEN download_drive_file(fs, id, outdir, p.r, p.r, p.disk)
                        ELSE download_doc_export(fs, id, outdir, kind, p.r, p.r, p.disk)} :
              /\ fs' = res.fs
              /\ failed' = IF res.raised THEN failed \cup {key} ELSE failed
              /\ pc' = AfterCall(res.raised)
        /\ served' = Put(served, key, script)
        /\ calls' = Put(calls, key, Count(key) + 1)

\* a variant: the loop over the doc IDs left out
DlDone_FilesOnly == dl.files = {}

\* the current item of id_map has no call left to make
DlDone == dl.files = {} /\ dl.docs = {} /\ dl.doc = NoneVal

\* lines 140-141: the next item of id_map
BeginUrl ==
    /\ pc = "download" /\ DlDone /\ di < Len(id_map)
    /\ di' = di + 1
    /\ dl' = [files |-> id_map[di + 1].files, docs |-> id_map[di + 1].docs,
              doc |-> NoneVal, fi |-> 1]
    /\ UNCHANGED <<arg, ret, urls, web, served, fs, pc, browser, navTotal, jar,
                   sess, ui, cur, id_map, calls, failed, run, fs1>>

\* lines 143-147: one file ID, in whatever order the set yields them
AttemptFile ==
    /\ pc = "download" /\ di >= 1
    /\ \E fid \in dl.files :
          /\ Call(id_map[di].url, id_map[di].outdir, "file", fid)
          /\ dl' = [dl EXCEPT !.files = @ \ {fid}]
    /\ UNCHANGED <<arg, ret, urls, web, browser, navTotal, jar, sess, ui, cur,
                   id_map, di, run, fs1>>

\* lines 149-154: one format of one doc ID; the files come first
AttemptDoc ==
    /\ pc = "download" /\ di >= 1 /\ dl.files = {}
    /\ \E did \in dl.docs :
          /\ dl.doc \in {NoneVal, did}
          /\ Call(id_map[di].url, id_map[di].outdir, Formats[dl.fi], did)
          /\ dl' = IF dl.fi = Len(Formats)
                   THEN [dl EXCEPT !.docs = @ \ {did}, !.doc = NoneVal, !.fi = 1]
                   ELSE [dl EXCEPT !.doc = did, !.fi = @ + 1]
    /\ UNCHANGED <<arg, ret, urls, web, browser, navTotal, jar, sess, ui, cur,
                   id_map, di, run, fs1>>

\* line 156
Finish ==
    /\ pc = "download" /\ DlDone /\ di = Len(id_map)
    /\ pc' = "done"
    /\ UNCHANGED <<arg, ret, urls, web, served, fs, browser, navTotal, jar,
                   sess, ui, cur, id_map, di, dl, calls, failed, run, fs1>>

\* The script is invoked a second time with the same arguments: the pages,
\* the server and the disk behave as before, the files are still there.
Rerun ==
    /\ pc = "done" /\ run = 1
    /\ run' = 2 /\ fs1' = fs
    /\ pc' = "launch" /\ browser' = "none" /\ navTotal' = 0 /\ jar' = NoJar
    /\ sess' = NoJar /\ ui' = 1 /\ cur' = NoCrawl /\ id_map' = <<>> /\ di' = 0
    /\ dl' = NoDl /\ calls' = <<>> /\ failed' = {}
    /\ UNCHANGED <<arg, ret, urls, web, served, fs>>

\* the steps of the download phase
Download == BeginUrl \/ AttemptFile \/ AttemptDoc \/ Finish

Next ==
    \/ Launch \/ NavigateTarget \/ NavigateFolder \/ Store
    \/ GetCookies \/ Quit \/ MakeSession
    \/ Download

\* one invocation of the script
Spec == Init /\ [][Next]_vars

\* One invocation in which every download call returns or raises: main() is
\* one thread, so a step of the download phase that can be taken is taken.
LiveSpec == Init /\ [][Next]_vars /\ WF_vars(Download)

\* two invocations in a row
NextTwice == Next \/ Rerun

SpecTwice == Init /\ [][NextTwice]_vars

\* ===================================================================
\* The properties
\* ===================================================================

\* The state of section 4.5 the run is in
Phase ==
    CASE pc = "launch" -> "Init"
      [] pc = "crawl" -> "LoggedIn"
      [] pc \in {"cookies", "quit", "session"} -> "Crawled"
      [] pc = "download" /\ di = 0 -> "SessionBridged"
      [] pc = "download" /\ di > 0 -> "Downloading"
      [] pc = "done" -> "Done"
      [] OTHER -> "Aborted"

PhaseOrder ==
    <<"Init", "LoggedIn", "Crawled", "SessionBridged", "Downloading", "Done">>

PhaseIndex(ph) == CHOOSE i \in DOMAIN PhaseOrder : PhaseOrder[i] = ph

\* The IDs the pages show for a Target URL that was crawled: those of its
\* own page and of the pages of the folders its own page links to
PagesOf(u) == {u} \cup web[u].folders
FilesOn(u) == UNION {web[p].byFile \cup web[p].byOpen : p \in PagesOf(u)}
DocsOn(u) == UNION {web[p].byDoc : p \in PagesOf(u)}

\* an ID that the markup shows more than once
Repeated(u, id) ==
    \/ id \in web[u].byFile \cap web[u].byOpen
    \/ \E f \in web[u].folders :
          f # u /\ id \in (web[u].byFile \cup web[u].byOpen)
                          \cap (web[f].byFile \cup web[f].byOpen)

\* C1: when the run is Done, for every Target URL each file ID shown by its
\* page or its folders' pages has had exactly one download_drive_file call,
\* each doc ID exactly one download_doc_export call as pdf and one as docx,
\* and no other download call was made; during the run no call is made
\* twice.
C1_ExactlyOnce ==
    /\ \A k \in DOMAIN calls :
          /\ calls[k] = 1
          /\ k[1] \in Range(urls) /\ k[1] \in DOMAIN web
          /\ k[2] = "file" => k[3] \in FilesOn(k[1])
          /\ k[2] # "file" => k[2] \in {"pdf", "docx"} /\ k[3] \in DocsOn(k[1])
    /\ pc = "done" =>
          \A u \in Range(urls) :
             /\ \A id \in FilesOn(u) : Count(<<u, "file", id>>) = 1
             /\ \A id \in DocsOn(u) :
                   Count(<<u, "pdf", id>>) = 1 /\ Count(<<u, "docx", id>>) = 1

\* Done, an ID that the markup shows twice, and its download failed
C1_Witness ==
    /\ pc = "done"
    /\ \E u \in Range(urls), id \in Ids :
          Repeated(u, id) /\ <<u, "file", id>> \in failed

\* the calls the current item of id_map still has to make
Pending ==
    {<<"file", f>> : f \in dl.files}
    \cup UNION {{<<Formats[i], d>> :
                     i \in {j \in DOMAIN Formats : d = dl.doc => j >= dl.fi}} :
                  d \in dl.docs}

\* C2: a download call that raises is caught where it was made: the run
\* stays in the download loop, at the place a success would have left it,
\* and when the run is Done no call of any Target URL was left out.
C2_FailureIsolated ==
    /\ [][failed' # failed =>
            /\ pc' = "download" /\ di' = di /\ id_map' = id_map
            /\ \E k \in Pending :
                  /\ failed' = failed \cup {<<id_map[di].url, k[1], k[2]>>}
                  /\ Pending' = Pending \ {k}]_vars
    /\ [](pc = "done" /\ failed # {} =>
            \A i \in DOMAIN id_map :
               /\ \A f \in id_map[i].files : <<id_map[i].url, "file", f>> \in DOMAIN calls
               /\ \A d \in id_map[i].docs, i2 \in DOMAIN Formats :
                     <<id_map[i].url, Formats[i2], d>> \in DOMAIN calls)

\* Done after a file download failed and a later doc export of the same
\* Target URL succeeded
C2_Witness ==
    /\ pc = "done"
    /\ \E u \in Range(urls), f \in Ids, d \in Ids :
          /\ <<u, "file", f>> \in failed
          /\ <<u, "docx", d>> \in DOMAIN calls \ failed

AllAttempted ==
    \A i \in DOMAIN id_map :
       /\ \A f \in id_map[i].files : Count(<<id_map[i].url, "file", f>>) >= 1
       /\ \A d \in id_map[i].docs :
             Count(<<id_map[i].url, "pdf", d>>) >= 1
             /\ Count(<<id_map[i].url, "docx", d>>) >= 1

\* C3: from the download phase the run always reaches Done, whatever calls
\* fail, and it is Done only when every ID of every item of id_map was
\* attempted.
C3_ReachesDone ==
    /\ (pc = "download") ~> (pc = "done")
    /\ [](pc = "done" => AllAttempted /\ di = Len(id_map))

\* Done although every one of at least two calls failed
C3_Witness ==
    /\ pc = "done"
    /\ Cardinality(failed) >= 2 /\ failed = DOMAIN calls

\* C5: the phases follow one another in the order of section 4.5, none
\* skipped or repeated; the cookies are read only once every Target URL is
\* crawled, the session exists only once the browser is closed, and once a
\* download call was made the browser is not touched again.
C5_PhaseOrder ==
    /\ [][Phase' # Phase =>
            \/ Phase' = "Aborted"
            \/ Phase # "Aborted" /\ PhaseIndex(Phase') = PhaseIndex(Phase) + 1]_vars
    /\ [](jar # NoJar => ui = Len(urls) + 1 /\ ~cur.active)
    /\ [](sess # NoJar => browser = "closed" /\ jar # NoJar)
    /\ [](pc = "download" => sess # NoJar)
    /\ [][calls # <<>> =>
            navTotal' = navTotal /\ jar' = jar /\ browser' = browser]_vars

\* Done after two Target URLs and at least one download call
C5_Witness ==
    /\ pc = "done" /\ Len(urls) = 2 /\ calls # <<>>
    /\ browser = "closed"

\* C6: a navigation that fails during the crawl ends the run at once: it
\* is not tried again, no session is made, no download call is made and no
\* file written, whatever was crawled before, and the run never is Done.
C6_NavFailureAborts ==
    /\ [][(pc = "crawl" /\ navTotal' # navTotal /\ cur' = cur) =>
            pc' = "aborted"]_vars
    /\ [][pc = "aborted" => pc' = "aborted" /\ navTotal' = navTotal]_vars
    /\ [](pc = "aborted" =>
            calls = <<>> /\ fs = EmptyFs /\ sess = NoJar /\ di = 0)

\* aborted in a folder navigation of the second Target URL, the first one
\* crawled with IDs to download
C6_Witness ==
    /\ pc = "aborted" /\ ui = 2 /\ cur.active
    /\ Len(id_map) = 1 /\ id_map[1].files \cup id_map[1].docs # {}
    /\ calls = <<>>

\* C8 as stated: when the run is Done and no call failed, each Target
\* URL's output directory holds as many files as download calls were made
\* for that URL.
C8_AsStated ==
    (pc = "done" /\ failed = {}) =>
        \A i \in DOMAIN id_map :
           Cardinality({p \in DOMAIN fs : p[1] = id_map[i].outdir})
             = Cardinality({k \in DOMAIN calls : k[1] = id_map[i].url})

\* C9 as stated: a second invocation with the same pages and the same
\* responses leaves the files as the first one left them.
C9_AsStated ==
    (run = 2 /\ pc = "done") => fs = fs1

\* the folder URLs the Target URL's own markup shows
OwnFolders == web[cur.visits[1]].folders

\* C10: in the crawl of a Target URL the first navigation is to the URL,
\* every other one to a folder URL of the URL's own markup, none twice;
\* when the crawl is complete every such folder was visited, which makes
\* 1 + their number navigations, and the ID sets kept for the URL are the
\* unions over those pages.
C10_OneLevel ==
    cur.visits # <<>> =>
        /\ cur.visits[1] \in Range(urls)
        /\ \A i \in 2..Len(cur.visits) : cur.visits[i] \in OwnFolders
        /\ \A i, j \in DOMAIN cur.visits : i # j => cur.visits[i] # cur.visits[j]
        /\ ~cur.active =>
              /\ Len(cur.visits) = 1 + Cardinality(OwnFolders)
              /\ \E i \in DOMAIN id_map :
                    /\ id_map[i].url = cur.visits[1]
                    /\ id_map[i].files = FilesOn(cur.visits[1])
                    /\ id_map[i].docs = DocsOn(cur.visits[1])

\* a complete crawl whose one folder page links to another folder
C10_Witness ==
    /\ cur.visits # <<>> /\ ~cur.active
    /\ Len(cur.visits) = 2
    /\ web[cur.visits[2]].folders \ OwnFolders # {}

====
